---- MODULE Spec2Model ----
(***************************************************************************)
(* Verification model of chibivue excerpts:                                *)
(*   - reactive / getTargetType / targetTypeMap / toRawType / toRaw        *)
(*   - PublicInstanceProxyHandlers (get / set)                             *)
(*   - withModifiers and its modifierGuards                                *)
(*   - runtime-dom createApp (mount override) / normalizeContainer         *)
(*   - the effect / dependency store described by the design document      *)
(* Each part has its own specification (SpecReactive, SpecInstance,        *)
(* SpecModifiers, SpecApp, SpecEffect); the variables of the other parts   *)
(* stay at their initial value.                                            *)
(***************************************************************************)
EXTENDS Integers, Sequences, FiniteSets, TLC

VARIABLES
    heap,       \* reactive: allocated objects, index = identity
    rcall,      \* reactive: last call of reactive / toRaw  [op, arg, ret]
    inst,       \* instance: ComponentInternalInstance [setupState, props, data, propsOptions]
    pcall,      \* instance: last proxy trap call [op, key, val, ret]
    mcall,      \* modifiers: last invocation of the handler withModifiers returned
    doc,        \* app: the document, selector -> element or null
    mountLog,   \* app: containers the renderer's original mount was called with
    acall,      \* app: last call of app.mount
    coll,       \* effect: keys present in the map-like reactive collection
    rec,        \* effect: fields of the reactive record
    subs,       \* effect: Dependency Store, dependency key -> Subscriber Set
    deps,       \* effect: per effect, its recorded key set
    lastRead,   \* effect: per effect, the keys read by its most recent run
    status,     \* effect: per effect, "none" | "active" | "stopped"
    ecall       \* effect: last operation [op, key, ran]

vars == <<heap, rcall, inst, pcall, mcall, doc, mountLog, acall,
          coll, rec, subs, deps, lastRead, status, ecall>>

reactiveVars == <<heap, rcall>>
instanceVars == <<inst, pcall>>
modifierVars == <<mcall>>
appVars      == <<doc, mountLog, acall>>
effectVars   == <<coll, rec, subs, deps, lastRead, status, ecall>>

(***************************************************************************)
(* Bounds                                                                  *)
(***************************************************************************)
MaxHeap == 3        \* objects (raw targets and proxies) allocated
MaxMods == 2        \* length of a modifiers list
MaxMounts == 2      \* calls of the original mount recorded

(***************************************************************************)
(* Part 1: reactive, getTargetType, toRawType, toRaw                       *)
(***************************************************************************)

\* A JavaScript value: a primitive, or a reference to heap[ref].
Prim(p) == [ref |-> 0, prim |-> p]
Ref(n)  == [ref |-> n, prim |-> "object"]

PrimNames == {"undefined", "null", "zero", "num", "str"}
Primitives == {Prim(p) : p \in PrimNames}
IsRef(v) == v.prim = "object"

\* falsy primitives: undefined, null, 0
Truthy(v) == v.prim \notin {"undefined", "null", "zero"}

RawClasses == {"Object", "Array", "Map", "Function", "HTMLInputElement"}

ValuesOf(h) == Primitives \cup {Ref(n) : n \in 1..Len(h)}

IsProxy(h, v) == IsRef(v) /\ h[v.ref].cls = "Proxy"

\* builtin tag Object.prototype.toString reports. A Proxy reports "Array" when its
\* target is an array and "Object" otherwise (only such targets are ever proxied).
RECURSIVE ClassTag(_, _)
ClassTag(h, v) ==
    IF ~IsRef(v)
    THEN CASE v.prim = "undefined" -> "Undefined"
           [] v.prim = "null"      -> "Null"
           [] v.prim = "str"       -> "String"
           [] OTHER                -> "Number"
    ELSE IF h[v.ref].cls = "Proxy"
         THEN IF ClassTag(h, h[v.ref].target) = "Array" THEN "Array" ELSE "Object"
         ELSE h[v.ref].cls

Chars(s) ==
    CASE s = "Object"    -> <<"O","b","j","e","c","t">>
      [] s = "Array"     -> <<"A","r","r","a","y">>
      [] s = "Map"       -> <<"M","a","p">>
      [] s = "Function"  -> <<"F","u","n","c","t","i","o","n">>
      [] s = "HTMLInputElement"
                         -> <<"H","T","M","L","I","n","p","u","t","E","l","e","m","e","n","t">>
      [] s = "Undefined" -> <<"U","n","d","e","f","i","n","e","d">>
      [] s = "Null"      -> <<"N","u","l","l">>
      [] s = "String"    -> <<"S","t","r","i","n","g">>
      [] s = "Number"    -> <<"N","u","m","b","e","r">>

\* objectToString.call(value): "[object Tag]"
toTypeString(h, v) ==
    <<"[","o","b","j","e","c","t"," ">> \o Chars(ClassTag(h, v)) \o <<"]">>

\* String.prototype.slice(8, -1)
toRawType(h, v) ==
    LET s == toTypeString(h, v) IN SubSeq(s, 9, Len(s) - 1)

\* enum TargetType { INVALID = 0, COMMON = 1 }
TargetTypeNames == {"INVALID", "COMMON"}

targetTypeMapAll(rawType) == "COMMON"
targetTypeMap(rawType) ==
    IF rawType = Chars("Object") \/ rawType = Chars("Array")
    THEN "COMMON"
    ELSE "INVALID"

\* Object.isExtensible: false for primitives, forwarded to the target by a Proxy
RECURSIVE isExtensible(_, _)
isExtensible(h, v) ==
    IF ~IsRef(v) THEN FALSE
    ELSE IF h[v.ref].cls = "Proxy" THEN isExtensible(h, h[v.ref].target)
    ELSE h[v.ref].ext

getTargetType(h, v) ==
    IF ~isExtensible(h, v) THEN "INVALID" ELSE targetTypeMap(toRawType(h, v))

\* observed && observed[ReactiveFlags.RAW]: the get trap of a proxy answers the key
\* __v_raw with its target; any other truthy value has no such property.
RawMarker(h, v) ==
    IF ~Truthy(v) THEN v
    ELSE IF IsProxy(h, v) THEN h[v.ref].target
    ELSE Prim("undefined")

toRawOneLevel(h, v) ==
    LET raw == RawMarker(h, v) IN IF Truthy(raw) THEN raw ELSE v
RECURSIVE toRaw(_, _)
toRaw(h, v) ==
    LET raw == RawMarker(h, v) IN IF Truthy(raw) THEN toRaw(h, raw) ELSE v

NoCall == [op |-> "none", arg |-> Prim("undefined"), ret |-> Prim("undefined")]

InitReactive ==
    /\ heap = <<>>
    /\ rcall = NoCall

\* the caller allocates a target: an object literal, an array, a Map, a function, a
\* host node; possibly made non-extensible (Object.freeze / preventExtensions)
NewTarget(cls, ext) ==
    /\ Len(heap) < MaxHeap
    /\ heap' = Append(heap, [cls |-> cls, ext |-> ext, target |-> Prim("undefined")])
    /\ rcall' = [op |-> "new", arg |-> Ref(Len(heap) + 1), ret |-> Ref(Len(heap) + 1)]

\* export function reactive(target)
Reactive(v) ==
    /\ IF getTargetType(heap, v) = "INVALID"
       THEN /\ heap' = heap
            /\ rcall' = [op |-> "reactive", arg |-> v, ret |-> v]
       ELSE /\ Len(heap) < MaxHeap
            /\ heap' = Append(heap, [cls |-> "Proxy", ext |-> TRUE, target |-> v])
            /\ rcall' = [op |-> "reactive", arg |-> v, ret |-> Ref(Len(heap) + 1)]

\* export function toRaw(observed)
ToRaw(v) ==
    /\ heap' = heap
    /\ rcall' = [op |-> "toRaw", arg |-> v, ret |-> toRaw(heap, v)]

(***************************************************************************)
(* Part 2: PublicInstanceProxyHandlers                                     *)
(***************************************************************************)
Keys == {"a", "b"}
Vals == {"x", "y"}
Absent == "<absent>"          \* the key is not an own key of the object
Undefined == "<undefined>"

\* an object of the instance: key -> value, Absent where it has no such own key
Store == [Keys -> Vals \cup {Absent}]

hasOwn(obj, key) == obj[key] # Absent
Read(obj, key) == IF hasOwn(obj, key) THEN obj[key] ELSE Undefined

hasSetupBinding(state, key) == hasOwn(state, key)

\* instance.propsOptions: undefined, or the normalized props declaration
PropsOptions ==
    {[defined |-> FALSE, keys |-> {}]} \cup {[defined |-> TRUE, keys |-> K] : K \in SUBSET Keys}

Instances ==
    [setupState : Store, props : Store, data : Store, propsOptions : PropsOptions]

\* get({ _: instance }, key): the value returned
ProxyGetDataFirst(i, key) ==
    IF hasSetupBinding(i.setupState, key) THEN i.setupState[key]
    ELSE IF hasOwn(i.data, key) THEN Read(i.data, key)
    ELSE IF i.propsOptions.defined /\ key \in i.propsOptions.keys THEN Read(i.props, key)
    ELSE Undefined
ProxyGet(i, key) ==
    IF hasSetupBinding(i.setupState, key) THEN i.setupState[key]
    ELSE IF i.propsOptions.defined /\ key \in i.propsOptions.keys THEN Read(i.props, key)
    ELSE IF hasOwn(i.data, key) THEN Read(i.data, key)
    ELSE Undefined

\* set({ _: instance }, key, value): the instance afterwards
ProxySetSetupOnly(i, key, value) ==
    IF hasSetupBinding(i.setupState, key)
    THEN [i EXCEPT !.setupState[key] = value]
    ELSE i
ProxySetCreates(i, key, value) ==
    IF hasSetupBinding(i.setupState, key)
    THEN [i EXCEPT !.setupState[key] = value]
    ELSE [i EXCEPT !.data[key] = value]
ProxySet(i, key, value) ==
    IF hasSetupBinding(i.setupState, key)
    THEN [i EXCEPT !.setupState[key] = value]
    ELSE IF hasOwn(i.data, key)
         THEN [i EXCEPT !.data[key] = value]
         ELSE i

\* the call before the last one
NoPrev == [op |-> "none", key |-> "a", val |-> Undefined]
Prev(c) == [op |-> c.op, key |-> c.key, val |-> c.val]

NoProxyCall ==
    [op |-> "none", key |-> "a", val |-> Undefined, ret |-> Undefined, prev |-> NoPrev]

InitInstance ==
    /\ inst \in Instances
    /\ pcall = NoProxyCall

Get(key) ==
    /\ inst' = inst
    /\ pcall' = [op |-> "get", key |-> key, val |-> Undefined, ret |-> ProxyGet(inst, key),
                 prev |-> Prev(pcall)]

Set(key, value) ==
    /\ inst' = ProxySet(inst, key, value)
    /\ pcall' = [op |-> "set", key |-> key, val |-> value, ret |-> "true",
                 prev |-> Prev(pcall)]

(***************************************************************************)
(* Part 3: withModifiers                                                   *)
(***************************************************************************)
systemModifiers == <<"ctrl", "shift", "alt", "meta">>

GuardNames ==
    {"stop", "prevent", "self", "ctrl", "shift", "alt", "meta",
     "left", "middle", "right", "exact"}

\* modifier names a template may carry: the guarded ones and one without a guard
ModifierNames == GuardNames \cup {"once"}

Buttons == {"none", "0", "1", "2"}     \* "none": the event has no button property

Events ==
    [self : BOOLEAN,            \* e.target === e.currentTarget
     ctrlKey : BOOLEAN, shiftKey : BOOLEAN, altKey : BOOLEAN, metaKey : BOOLEAN,
     button : Buttons,
     stopped : {FALSE},         \* stopPropagation() was called
     prevented : {FALSE}]       \* preventDefault() was called

SeqsUpTo(S, n) == UNION {[1..k -> S] : k \in 0..n}

includes(list, m) == \E j \in 1..Len(list) : list[j] = m

KeyOf(e, m) ==
    CASE m = "ctrl"  -> e.ctrlKey
      [] m = "shift" -> e.shiftKey
      [] m = "alt"   -> e.altKey
      [] m = "meta"  -> e.metaKey

\* modifierGuards[name](e, modifiers): the event afterwards
GuardEffect(name, e) ==
    CASE name = "stop"    -> [e EXCEPT !.stopped = TRUE]
      [] name = "prevent" -> [e EXCEPT !.prevented = TRUE]
      [] OTHER            -> e

\* modifierGuards[name](e, modifiers): whether the value returned is truthy
GuardTruthy(name, e, modifiers) ==
    CASE name = "stop"    -> FALSE
      [] name = "prevent" -> FALSE
      [] name = "self"    -> ~e.self
      [] name = "ctrl"    -> ~e.ctrlKey
      [] name = "shift"   -> ~e.shiftKey
      [] name = "alt"     -> ~e.altKey
      [] name = "meta"    -> ~e.metaKey
      [] name = "left"    -> e.button # "none" /\ e.button # "0"
      [] name = "middle"  -> e.button # "none" /\ e.button # "1"
      [] name = "right"   -> e.button # "none" /\ e.button # "2"
      [] name = "exact"   ->
            \E j \in 1..Len(systemModifiers) :
                KeyOf(e, systemModifiers[j]) /\ ~includes(modifiers, systemModifiers[j])

\* the for loop of the returned handler from index i on; evaluated lists the
\* modifiers whose guard was called so far
RECURSIVE HandlerLoopNoStop(_, _, _, _, _)
HandlerLoopNoStop(modifiers, i, e, args, evaluated) ==
    IF i > Len(modifiers)
    THEN [blocked |-> FALSE, ev |-> e, evaluated |-> evaluated,
          fnCalls |-> <<[ev |-> e, args |-> args]>>]
    ELSE IF modifiers[i] \in GuardNames
         THEN HandlerLoopNoStop(modifiers, i + 1, GuardEffect(modifiers[i], e), args,
                                Append(evaluated, modifiers[i]))
         ELSE HandlerLoopNoStop(modifiers, i + 1, e, args, evaluated)
RECURSIVE HandlerLoop(_, _, _, _, _)
HandlerLoop(modifiers, i, e, args, evaluated) ==
    IF i > Len(modifiers)
    THEN [blocked |-> FALSE, ev |-> e, evaluated |-> evaluated,
          fnCalls |-> <<[ev |-> e, args |-> args]>>]
    ELSE IF modifiers[i] \in GuardNames
         THEN IF GuardTruthy(modifiers[i], e, modifiers)
              THEN [blocked |-> TRUE, ev |-> GuardEffect(modifiers[i], e),
                    evaluated |-> Append(evaluated, modifiers[i]), fnCalls |-> <<>>]
              ELSE HandlerLoop(modifiers, i + 1, GuardEffect(modifiers[i], e), args,
                               Append(evaluated, modifiers[i]))
         ELSE HandlerLoop(modifiers, i + 1, e, args, evaluated)

NoEvent ==
    [self |-> TRUE, ctrlKey |-> FALSE, shiftKey |-> FALSE, altKey |-> FALSE,
     metaKey |-> FALSE, button |-> "none", stopped |-> FALSE, prevented |-> FALSE]
NoResult == [blocked |-> FALSE, ev |-> NoEvent, evaluated |-> <<>>, fnCalls |-> <<>>]

ExtraArgs == {<<"arg">>}

InitModifiers ==
    mcall = [phase |-> "none", modifiers |-> <<>>, ev |-> NoEvent, args |-> <<>>,
             res |-> NoResult]

\* withModifiers(fn, modifiers): the handler is created
WithModifiers(modifiers) ==
    /\ mcall.phase = "none"
    /\ mcall' = [mcall EXCEPT !.phase = "waiting", !.modifiers = modifiers]

\* the handler is called with (event, ...args) and runs to its return
Dispatch(e, args) ==
    /\ mcall.phase = "waiting"
    /\ mcall' = [mcall EXCEPT !.phase = "returned", !.ev = e, !.args = args,
                              !.res = HandlerLoop(mcall.modifiers, 1, e, args, <<>>)]

\* the caller of the handler takes the result; the handler waits for the next event
Await ==
    /\ mcall.phase = "returned"
    /\ mcall' = [mcall EXCEPT !.phase = "waiting", !.ev = NoEvent, !.args = <<>>,
                              !.res = NoResult]

(***************************************************************************)
(* Part 4: createApp / normalizeContainer                                  *)
(***************************************************************************)
Selectors == {"#app", "#root"}
Elements == {"<div1>", "<div2>"}
Null == "null"

Documents == [Selectors -> Elements \cup {Null}]

\* Element | string
Containers ==
    {[isString |-> TRUE, v |-> s] : s \in Selectors}
        \cup {[isString |-> FALSE, v |-> el] : el \in Elements}

querySelector(d, selector) == d[selector]

normalizeContainerNoQuery(d, container) == container.v
normalizeContainer(d, container) ==
    IF container.isString
    THEN querySelector(d, container.v)
    ELSE container.v

NoMount == [op |-> "none", arg |-> [isString |-> FALSE, v |-> Null]]

InitApp ==
    /\ doc \in Documents
    /\ mountLog = <<>>
    /\ acall = NoMount

\* createApp(...args): the app of the renderer with its mount replaced
CreateApp ==
    /\ acall.op = "none"
    /\ acall' = [acall EXCEPT !.op = "createApp"]
    /\ UNCHANGED <<doc, mountLog>>

\* app.mount(containerOrSelector)
Mount(containerOrSelector) ==
    /\ acall.op # "none"
    /\ LET container == normalizeContainer(doc, containerOrSelector) IN
       IF container = Null
       THEN mountLog' = mountLog
       ELSE /\ Len(mountLog) < MaxMounts
            /\ mountLog' = Append(mountLog, container)
    /\ acall' = [op |-> "mount", arg |-> containerOrSelector]
    /\ doc' = doc

(***************************************************************************)
(* Part 5: Effect and Dependency Store (design document, sections 4.1-4.3) *)
(***************************************************************************)
Effects == {"E1", "E2", "E3"}
RecFields == {"flag", "a", "b"}
FieldVals == {"0", "1"}
MapKeys == {"k1", "k2"}
ITERATE_KEY == "<iterate>"     \* the sentinel iterate/size key

\* Dependency Key: (wrapped object, property key)
DepKeys ==
    {<<"rec", f>> : f \in RecFields} \cup {<<"map", k>> : k \in MapKeys \cup {ITERATE_KEY}}

\* the keys the function of effect e reads when it runs in state (r, c):
\*   E1: rec.flag ? rec.a : rec.b
\*   E2: map.size
\*   E3: map.has("k1") ? rec.a : undefined
Reads(e, r, c) ==
    CASE e = "E1" -> {<<"rec", "flag">>} \cup
                     (IF r["flag"] = "1" THEN {<<"rec", "a">>} ELSE {<<"rec", "b">>})
      [] e = "E2" -> {<<"map", ITERATE_KEY>>}
      [] e = "E3" -> {<<"map", "k1">>} \cup
                     (IF "k1" \in c THEN {<<"rec", "a">>} ELSE {})

\* track(wrapper, key) for every key of K while e is the running effect
Track(st, e, K) ==
    [st EXCEPT !.subs = [k \in DepKeys |-> IF k \in K THEN @[k] \cup {e} ELSE @[k]],
               !.deps[e] = @ \cup K]

\* step (1) of the run procedure: clear the recorded key set of e and remove e from
\* the Subscriber Sets of those keys
Cleanup(st, e) ==
    [st EXCEPT !.subs = [k \in DepKeys |-> IF k \in st.deps[e] THEN @[k] \ {e} ELSE @[k]],
               !.deps[e] = {}]

\* one run of effect e in state (r, c)
RunEffectNoCleanup(st, e, r, c) ==
    [Track(st, e, Reads(e, r, c)) EXCEPT !.lastRead[e] = Reads(e, r, c),
                                         !.ran = @ \cup {e}]
RunEffect(st, e, r, c) ==
    [Track(Cleanup(st, e), e, Reads(e, r, c)) EXCEPT !.lastRead[e] = Reads(e, r, c),
                                                     !.ran = @ \cup {e}]

\* the scheduler's default policy: every effect of the batch is invoked at once
RECURSIVE RunAll(_, _, _, _)
RunAll(st, batch, r, c) ==
    IF batch = {} THEN st
    ELSE LET e == CHOOSE x \in batch : TRUE IN
         RunAll(RunEffect(st, e, r, c), batch \ {e}, r, c)

\* trigger(wrapper, key) for the keys K: one deduplicated batch of subscribers
BatchNoSentinel(st, K) == UNION {st.subs[k] : k \in K \ {<<"map", ITERATE_KEY>>}}
Batch(st, K) == UNION {st.subs[k] : k \in K}

Store0 == [subs |-> subs, deps |-> deps, lastRead |-> lastRead, ran |-> {}]

Commit(st) ==
    /\ subs' = st.subs
    /\ deps' = st.deps
    /\ lastRead' = st.lastRead

Trigger(K, r, c) == RunAll(Store0, Batch(Store0, K), r, c)

InitEffect ==
    /\ coll = {}
    /\ rec = [f \in RecFields |-> "1"]
    /\ subs = [k \in DepKeys |-> {}]
    /\ deps = [e \in Effects |-> {}]
    /\ lastRead = [e \in Effects |-> {}]
    /\ status = [e \in Effects |-> "none"]
    /\ ecall = [op |-> "none", key |-> "", isNew |-> FALSE, ran |-> {}]

\* createEffect(fn): the effect runs once at creation
CreateEffect(e) ==
    /\ status[e] = "none"
    /\ status' = [status EXCEPT ![e] = "active"]
    /\ LET st == RunEffect(Store0, e, rec, coll) IN
          /\ Commit(st)
          /\ ecall' = [op |-> "create", key |-> e, isNew |-> FALSE, ran |-> st.ran]
    /\ UNCHANGED <<coll, rec>>

\* stopEffect(e): e leaves every Subscriber Set it is part of
StopEffect(e) ==
    /\ status[e] = "active"
    /\ status' = [status EXCEPT ![e] = "stopped"]
    /\ Commit(Cleanup(Store0, e))
    /\ ecall' = [op |-> "stop", key |-> e, isNew |-> FALSE, ran |-> {}]
    /\ UNCHANGED <<coll, rec>>

\* write of a field of the reactive record: triggers only when the value changes
WriteField(f, v) ==
    /\ rec' = [rec EXCEPT ![f] = v]
    /\ LET st == IF rec[f] # v THEN Trigger({<<"rec", f>>}, rec', coll) ELSE Store0 IN
          /\ Commit(st)
          /\ ecall' = [op |-> "write", key |-> f, isNew |-> FALSE, ran |-> st.ran]
    /\ UNCHANGED <<coll, status>>

\* insert into the map-like collection: per-element key and the sentinel key
MapSet(k) ==
    /\ coll' = coll \cup {k}
    /\ LET st == Trigger({<<"map", k>>, <<"map", ITERATE_KEY>>}, rec, coll') IN
          /\ Commit(st)
          /\ ecall' = [op |-> "mapSet", key |-> k, isNew |-> k \notin coll, ran |-> st.ran]
    /\ UNCHANGED <<rec, status>>

\* delete from the map-like collection
MapDelete(k) ==
    /\ coll' = coll \ {k}
    /\ LET st == Trigger({<<"map", k>>, <<"map", ITERATE_KEY>>}, rec, coll') IN
          /\ Commit(st)
          /\ ecall' = [op |-> "mapDelete", key |-> k, isNew |-> FALSE, ran |-> st.ran]
    /\ UNCHANGED <<rec, status>>

\* clear of the map-like collection
MapClear ==
    /\ coll' = {}
    /\ LET st == Trigger({<<"map", k>> : k \in coll} \cup {<<"map", ITERATE_KEY>>},
                         rec, coll') IN
          /\ Commit(st)
          /\ ecall' = [op |-> "mapClear", key |-> "", isNew |-> FALSE, ran |-> st.ran]
    /\ UNCHANGED <<rec, status>>

(***************************************************************************)
(* Specifications                                                          *)
(***************************************************************************)
IdleInstance ==
    /\ inst = [setupState |-> [k \in Keys |-> Absent], props |-> [k \in Keys |-> Absent],
               data |-> [k \in Keys |-> Absent],
               propsOptions |-> [defined |-> FALSE, keys |-> {}]]
    /\ pcall = NoProxyCall

IdleApp ==
    /\ doc = [s \in Selectors |-> Null]
    /\ mountLog = <<>>
    /\ acall = NoMount

NextReactive ==
    \/ \E cls \in RawClasses, ext \in BOOLEAN :
          NewTarget(cls, ext) /\ UNCHANGED <<instanceVars, modifierVars, appVars, effectVars>>
    \/ \E v \in ValuesOf(heap) :
          Reactive(v) /\ UNCHANGED <<instanceVars, modifierVars, appVars, effectVars>>
    \/ \E v \in ValuesOf(heap) :
          ToRaw(v) /\ UNCHANGED <<instanceVars, modifierVars, appVars, effectVars>>

StartReactive ==
    InitReactive /\ IdleInstance /\ InitModifiers /\ IdleApp /\ InitEffect

SpecReactive == StartReactive /\ [][NextReactive]_vars

NextInstance ==
    \/ \E key \in Keys :
          Get(key) /\ UNCHANGED <<reactiveVars, modifierVars, appVars, effectVars>>
    \/ \E key \in Keys, value \in Vals :
          Set(key, value) /\ UNCHANGED <<reactiveVars, modifierVars, appVars, effectVars>>

StartInstance ==
    InitReactive /\ InitInstance /\ InitModifiers /\ IdleApp /\ InitEffect

SpecInstance == StartInstance /\ [][NextInstance]_vars

NextModifiers ==
    \/ \E modifiers \in SeqsUpTo(ModifierNames, MaxMods) :
          WithModifiers(modifiers) /\ UNCHANGED <<reactiveVars, instanceVars, appVars, effectVars>>
    \/ \E e \in Events, args \in ExtraArgs :
          Dispatch(e, args) /\ UNCHANGED <<reactiveVars, instanceVars, appVars, effectVars>>
    \/ Await /\ UNCHANGED <<reactiveVars, instanceVars, appVars, effectVars>>

StartModifiers ==
    InitReactive /\ IdleInstance /\ InitModifiers /\ IdleApp /\ InitEffect

SpecModifiers == StartModifiers /\ [][NextModifiers]_vars

NextApp ==
    \/ CreateApp /\ UNCHANGED <<reactiveVars, instanceVars, modifierVars, effectVars>>
    \/ \E c \in Containers :
          Mount(c) /\ UNCHANGED <<reactiveVars, instanceVars, modifierVars, effectVars>>

StartApp ==
    InitReactive /\ IdleInstance /\ InitModifiers /\ InitApp /\ InitEffect

SpecApp == StartApp /\ [][NextApp]_vars

NextEffect ==
    \/ \E e \in Effects :
          CreateEffect(e) /\ UNCHANGED <<reactiveVars, instanceVars, modifierVars, appVars>>
    \/ \E e \in Effects :
          StopEffect(e) /\ UNCHANGED <<reactiveVars, instanceVars, modifierVars, appVars>>
    \/ \E f \in RecFields, v \in FieldVals :
          WriteField(f, v) /\ UNCHANGED <<reactiveVars, instanceVars, modifierVars, appVars>>
    \/ \E k \in MapKeys :
          MapSet(k) /\ UNCHANGED <<reactiveVars, instanceVars, modifierVars, appVars>>
    \/ \E k \in MapKeys :
          MapDelete(k) /\ UNCHANGED <<reactiveVars, instanceVars, modifierVars, appVars>>
    \/ MapClear /\ UNCHANGED <<reactiveVars, instanceVars, modifierVars, appVars>>

StartEffect ==
    InitReactive /\ IdleInstance /\ InitModifiers /\ IdleApp /\ InitEffect

SpecEffect == StartEffect /\ [][NextEffect]_vars

(***************************************************************************)
(* Properties                                                              *)
(***************************************************************************)

\* C1: wrapping is idempotent by identity: after any sequence of reactive calls at
\* most one wrapper exists per raw object, and reactive of a wrapper returns that
\* wrapper.
C1_OneWrapperPerRaw ==
    /\ \A i, j \in 1..Len(heap) :
          (heap[i].cls = "Proxy" /\ heap[j].cls = "Proxy"
             /\ toRaw(heap, Ref(i)) = toRaw(heap, Ref(j))) => i = j
    /\ (rcall.op = "reactive" /\ IsProxy(heap, rcall.arg)) => rcall.ret = rcall.arg

PlainAggregateTags == {"Object", "Array", "Map", "Set", "WeakMap", "WeakSet"}

\* C2: reactive returns its argument itself unless the argument's type tag is that
\* of a plain aggregate; only values with such a tag are ever the target of a wrapper.
C2_OnlyPlainAggregatesWrapped ==
    /\ rcall.op = "reactive" =>
          /\ ClassTag(heap, rcall.arg) \notin PlainAggregateTags => rcall.ret = rcall.arg
          /\ rcall.ret # rcall.arg =>
                /\ IsProxy(heap, rcall.ret)
                /\ heap[rcall.ret.ref].target = rcall.arg
                /\ IsRef(rcall.arg)
    /\ \A i \in 1..Len(heap) :
          heap[i].cls = "Proxy" =>
             /\ IsRef(heap[i].target)
             /\ ClassTag(heap, heap[i].target) \in PlainAggregateTags

C2_Witness ==
    /\ rcall.op = "reactive"
    /\ IsRef(rcall.arg)
    /\ heap[rcall.arg.ref].cls = "HTMLInputElement"
    /\ heap[rcall.arg.ref].ext
    /\ rcall.ret = rcall.arg
    /\ \E i \in 1..Len(heap) : heap[i].cls = "Proxy"

\* the value n wrapper layers below v
RECURSIVE Below(_, _, _)
Below(h, v, n) ==
    IF n = 0 \/ ~IsProxy(h, v) THEN v ELSE Below(h, h[v.ref].target, n - 1)

C4_SizeReaderRerunOnInsert ==
    [][\A e \in Effects :
          (ecall'.op = "mapSet" /\ ecall'.isNew /\ status[e] = "active"
             /\ lastRead[e] = {<<"map", ITERATE_KEY>>})
          => e \in ecall'.ran]_vars

C4_Witness ==
    /\ ecall.op = "mapSet"
    /\ ecall.isNew
    /\ status["E2"] = "active"
    /\ ecall.ran = {"E2"}

\* C5: after every completed run, an active effect is in the Subscriber Set of a key
\* exactly when its most recent run read that key.
C5_SubscriptionsEqualLastReads ==
    \A e \in Effects :
       status[e] = "active" =>
          /\ deps[e] = lastRead[e]
          /\ \A k \in DepKeys : (e \in subs[k]) <=> (k \in lastRead[e])

C5_Witness ==
    /\ status["E1"] = "active"
    /\ ecall.op = "write" /\ ecall.key = "flag" /\ "E1" \in ecall.ran
    /\ rec["flag"] = "0"
    /\ "E1" \notin subs[<<"rec", "a">>]
    /\ "E1" \in subs[<<"rec", "b">>]

\* C6: get resolves the key in setupState, then in props (when the key is declared
\* in propsOptions), then in data, else undefined; a get changes no instance state.
C6_GetPriority ==
    [][pcall'.op = "get" =>
          /\ inst' = inst
          /\ LET k == pcall'.key IN
             pcall'.ret =
                IF inst.setupState[k] # Absent THEN inst.setupState[k]
                ELSE IF inst.propsOptions.defined /\ k \in inst.propsOptions.keys
                     THEN (IF inst.props[k] # Absent THEN inst.props[k] ELSE Undefined)
                     ELSE IF inst.data[k] # Absent THEN inst.data[k]
                          ELSE Undefined]_vars

C6_Witness ==
    /\ pcall.op = "get"
    /\ inst.setupState[pcall.key] = Absent
    /\ inst.propsOptions.defined /\ pcall.key \in inst.propsOptions.keys
    /\ inst.props[pcall.key] # Absent
    /\ inst.data[pcall.key] # Absent
    /\ inst.data[pcall.key] # inst.props[pcall.key]
    /\ pcall.ret = inst.props[pcall.key]

\* C7: set writes setupState[key] when key is an own key of setupState, else
\* data[key] when key is an own key of data, else nothing; nothing else changes,
\* props never changes, no key is created, and set returns true.
C7_SetFrame ==
    [][pcall'.op = "set" =>
          LET k == pcall'.key
              v == pcall'.val IN
          /\ pcall'.ret = "true"
          /\ inst'.props = inst.props
          /\ inst'.propsOptions = inst.propsOptions
          /\ IF inst.setupState[k] # Absent
             THEN /\ inst'.setupState = [inst.setupState EXCEPT ![k] = v]
                  /\ inst'.data = inst.data
             ELSE IF inst.data[k] # Absent
                  THEN /\ inst'.data = [inst.data EXCEPT ![k] = v]
                       /\ inst'.setupState = inst.setupState
                  ELSE inst' = inst]_vars

C7_Witness ==
    /\ pcall.op = "set"
    /\ pcall.ret = "true"
    /\ inst.setupState[pcall.key] = Absent
    /\ inst.data[pcall.key] = Absent
    /\ inst.props[pcall.key] # Absent
    /\ inst.props[pcall.key] # pcall.val

\* C8 as stated: for a key that is an own key of setupState or of data, a get right
\* after set(key, v) returns v, also when the key is declared in propsOptions.
C8_ReadAfterWrite ==
    (/\ pcall.op = "get"
     /\ pcall.prev.op = "set"
     /\ pcall.prev.key = pcall.key
     /\ (hasOwn(inst.setupState, pcall.key) \/ hasOwn(inst.data, pcall.key)))
    => pcall.ret = pcall.prev.val

\* C8 amended: a get right after set(key, v) returns v when the key is an own key of
\* setupState, or an own key of data that is not declared in propsOptions; for an own
\* key of data only that is declared in propsOptions it returns props[key].
C8_ReadAfterWriteUnlessProp ==
    (/\ pcall.op = "get"
     /\ pcall.prev.op = "set"
     /\ pcall.prev.key = pcall.key)
    => LET k == pcall.key
           declared == inst.propsOptions.defined /\ k \in inst.propsOptions.keys IN
       /\ (hasOwn(inst.setupState, k) \/ (hasOwn(inst.data, k) /\ ~declared))
             => pcall.ret = pcall.prev.val
       /\ (~hasOwn(inst.setupState, k) /\ hasOwn(inst.data, k) /\ declared)
             => /\ pcall.ret = Read(inst.props, k)
                /\ inst.data[k] = pcall.prev.val

C8_Witness ==
    /\ pcall.op = "get"
    /\ pcall.prev.op = "set"
    /\ pcall.prev.key = pcall.key
    /\ ~hasOwn(inst.setupState, pcall.key)
    /\ hasOwn(inst.data, pcall.key)
    /\ inst.propsOptions.defined
    /\ pcall.key \notin inst.propsOptions.keys
    /\ hasOwn(inst.props, pcall.key)
    /\ inst.props[pcall.key] # pcall.prev.val
    /\ pcall.ret = pcall.prev.val

\* index of the first modifier whose guard returns truthy for the event, 0 if none
FirstBlocking(modifiers, e) ==
    LET B == {j \in 1..Len(modifiers) :
                 modifiers[j] \in GuardNames /\ GuardTruthy(modifiers[j], e, modifiers)}
    IN IF B = {} THEN 0 ELSE CHOOSE j \in B : \A l \in B : j <= l

IsGuarded(m) == m \in GuardNames

C10_MountResolvesFirst ==
    [][acall'.op = "mount" =>
          LET a == acall'.arg IN
          IF a.isString /\ doc[a.v] = Null
          THEN mountLog' = mountLog
          ELSE IF a.isString
               THEN mountLog' = Append(mountLog, doc[a.v])
               ELSE mountLog' = Append(mountLog, a.v)]_vars

C10_Witness ==
    /\ acall.op = "mount"
    /\ acall.arg.isString
    /\ doc[acall.arg.v] = Null
    /\ mountLog = <<>>
    /\ \E s \in Selectors : doc[s] # Null

====
